---- MODULE Spec2Model ----
(***************************************************************************)
(* Model of the Flipper IR file codec (src/lib.go): Unmarshal, Marshal and *)
(* the little-endian hex codec leHexToUint32 / encodeLEUint32Hex.          *)
(*                                                                         *)
(* Representation:                                                         *)
(*  - a Go string / []byte is a sequence of one-character strings;         *)
(*  - a uint32 is the vector of its four bytes, least-significant first    *)
(*    (val[k+1] is byte(val >> 8k)), so the whole 32-bit range is covered; *)
(*  - a float64 duty cycle is a signed count of 10^-FracDigits units;      *)
(*  - a slice is a sequence (a nil slice and an empty slice are both <<>>).*)
(***************************************************************************)
EXTENDS Integers, Sequences, FiniteSets, TLC

VARIABLES
    L,        \* the library handed to Marshal (NoLib when the input is raw text)
    s,        \* the byte buffer handed to Unmarshal
    lines,    \* bytes.Split(s, "\n")
    lineno,   \* number of lines already consumed (= Go's 0-based loop index of the next line)
    lib,      \* Unmarshal's local lib (Filetype, Version)
    signals,  \* Unmarshal's local signals slice
    curr,     \* Unmarshal's record in progress
    pc,       \* "marshal" | "start" | "loop" | "done"
    result,   \* returned *SignalLib (Nil for a nil pointer)
    err,      \* returned error (NoErr for nil)
    hexV,     \* input of encodeLEUint32Hex (NoVal when a text is decoded directly)
    hexText,  \* input of leHexToUint32
    hexOut,   \* output of leHexToUint32
    hpc       \* "encode" | "decode" | "done" | "off"

vars == <<L, s, lines, lineno, lib, signals, curr, pc, result, err,
          hexV, hexText, hexOut, hpc>>
parseVars == <<L, s, lines, lineno, lib, signals, curr, pc, result, err>>
hexVars == <<hexV, hexText, hexOut, hpc>>

----------------------------------------------------------------------------
(* Bounds *)
MaxLines == 3      \* lines of a raw input file
MaxSignals == 2    \* signals of a library handed to Marshal
MaxTokens == 5     \* tokens of a text handed to leHexToUint32
FracDigits == 7    \* decimal digits kept by the model of float64

----------------------------------------------------------------------------
(* bytes / strings helpers *)

IsSpace(c) == c \in {" ", "\t", "\r", "\n"}

RECURSIVE TrimLeft(_)
TrimLeft(str) ==
    IF str = <<>> THEN str
    ELSE IF IsSpace(Head(str)) THEN TrimLeft(Tail(str)) ELSE str

RECURSIVE TrimRight(_)
TrimRight(str) ==
    IF str = <<>> THEN str
    ELSE IF IsSpace(str[Len(str)]) THEN TrimRight(SubSeq(str, 1, Len(str) - 1)) ELSE str

TrimSpace(str) == TrimRight(TrimLeft(str))

HasPrefix(str, p) == Len(str) >= Len(p) /\ SubSeq(str, 1, Len(p)) = p

TrimPrefix(str, p) == IF HasPrefix(str, p) THEN SubSeq(str, Len(p) + 1, Len(str)) ELSE str

\* index of the first occurrence of character c in str, 0 when absent
IndexByte(str, c) ==
    IF \E i \in 1..Len(str) : str[i] = c
    THEN CHOOSE i \in 1..Len(str) : str[i] = c /\ \A j \in 1..(i - 1) : str[j] # c
    ELSE 0

RECURSIVE Split(_, _)
Split(str, c) ==
    LET i == IndexByte(str, c) IN
    IF i = 0 THEN <<str>>
    ELSE <<SubSeq(str, 1, i - 1)>> \o Split(SubSeq(str, i + 1, Len(str)), c)

\* bytes.SplitN(line, sep, 2)
SplitN2(str, c) ==
    LET i == IndexByte(str, c) IN
    IF i = 0 THEN <<str>>
    ELSE <<SubSeq(str, 1, i - 1), SubSeq(str, i + 1, Len(str))>>

FirstSpace(str) ==
    IF \E i \in 1..Len(str) : IsSpace(str[i])
    THEN CHOOSE i \in 1..Len(str) : IsSpace(str[i]) /\ \A j \in 1..(i - 1) : ~IsSpace(str[j])
    ELSE Len(str) + 1

RECURSIVE Fields(_)
Fields(str) ==
    LET t == TrimLeft(str) IN
    IF t = <<>> THEN <<>>
    ELSE LET j == FirstSpace(t) IN
         <<SubSeq(t, 1, j - 1)>> \o Fields(SubSeq(t, j, Len(t)))

----------------------------------------------------------------------------
(* strconv / fmt helpers *)

HexDigits == <<"0","1","2","3","4","5","6","7","8","9","A","B","C","D","E","F">>
LowerHexDigits == <<"0","1","2","3","4","5","6","7","8","9","a","b","c","d","e","f">>

\* value of a digit character as strconv reads it; 36 for a character that is no digit
DigitVal(c) ==
    IF \E i \in 1..16 : HexDigits[i] = c THEN (CHOOSE i \in 1..16 : HexDigits[i] = c) - 1
    ELSE IF \E i \in 1..16 : LowerHexDigits[i] = c
         THEN (CHOOSE i \in 1..16 : LowerHexDigits[i] = c) - 1
         ELSE 36

RECURSIVE ParseUintLoop(_, _, _, _)
ParseUintLoop(str, n, base, maxVal) ==
    IF str = <<>> THEN [ok |-> TRUE, val |-> n]
    ELSE LET d == DigitVal(Head(str)) IN
         IF d >= base THEN [ok |-> FALSE, val |-> 0]                      \* ErrSyntax
         ELSE IF n * base + d > maxVal THEN [ok |-> FALSE, val |-> maxVal] \* ErrRange
         ELSE ParseUintLoop(Tail(str), n * base + d, base, maxVal)

\* strconv.ParseUint(str, base, bitSize): no sign, no prefix, no underscore
ParseUint(str, base, bitSize) ==
    IF str = <<>> THEN [ok |-> FALSE, val |-> 0]
    ELSE ParseUintLoop(str, 0, base, 2^bitSize - 1)

\* fmt's %02X of a byte
Hex2(b) == <<HexDigits[(b \div 16) + 1], HexDigits[(b % 16) + 1]>>

----------------------------------------------------------------------------
(* Hex codec *)

Zero32 == <<0, 0, 0, 0>>

\* byte(val >> (8*k))
ByteOf(val, k) == val[k + 1]

encodeLEUint32HexBE(val) ==
    Hex2(ByteOf(val, 3)) \o <<" ">> \o Hex2(ByteOf(val, 2)) \o <<" ">> \o
    Hex2(ByteOf(val, 1)) \o <<" ">> \o Hex2(ByteOf(val, 0))

encodeLEUint32Hex(val) ==
    Hex2(ByteOf(val, 0)) \o <<" ">> \o Hex2(ByteOf(val, 1)) \o <<" ">> \o
    Hex2(ByteOf(val, 2)) \o <<" ">> \o Hex2(ByteOf(val, 3))

leHexToUint32AtLeast4(str) ==
    LET b == Fields(str) IN
    IF Len(b) < 4 THEN [ok |-> FALSE, val |-> Zero32]
    ELSE LET p == [i \in 1..4 |-> ParseUint(b[i], 16, 8)] IN
         IF \E i \in 1..4 : ~p[i].ok THEN [ok |-> FALSE, val |-> Zero32]
         ELSE [ok |-> TRUE, val |-> [i \in 1..4 |-> p[i].val]]

leHexToUint32(str) ==
    LET b == Fields(str) IN
    IF Len(b) # 4 THEN [ok |-> FALSE, val |-> Zero32]
    ELSE LET p == [i \in 1..4 |-> ParseUint(b[i], 16, 8)] IN
         IF \E i \in 1..4 : ~p[i].ok THEN [ok |-> FALSE, val |-> Zero32]
         \* result |= uint32(b) << (8 * i): token i becomes byte i
         ELSE [ok |-> TRUE, val |-> [i \in 1..4 |-> p[i].val]]

----------------------------------------------------------------------------
(* Decimal conversions *)

RECURSIVE FormatNat(_)
FormatNat(n) ==
    IF n < 10 THEN <<HexDigits[n + 1]>>
    ELSE FormatNat(n \div 10) \o <<HexDigits[(n % 10) + 1]>>

\* fmt's %d
FormatInt(n) == IF n < 0 THEN <<"-">> \o FormatNat(-n) ELSE FormatNat(n)

RECURSIVE ParseDecLoop(_, _)
ParseDecLoop(str, n) ==
    IF str = <<>> THEN [ok |-> TRUE, val |-> n]
    ELSE LET d == DigitVal(Head(str)) IN
         IF d >= 10 \/ Head(str) \notin {HexDigits[i] : i \in 1..10}
         THEN [ok |-> FALSE, val |-> 0]
         ELSE ParseDecLoop(Tail(str), n * 10 + d)

\* strconv.Atoi: optional sign, then one or more decimal digits.  Values
\* beyond the 64-bit range (ErrRange) lie outside the inputs of the model.
Atoi(str) ==
    LET signed == str # <<>> /\ Head(str) \in {"+", "-"}
        body == IF signed THEN Tail(str) ELSE str
        p == ParseDecLoop(body, 0)
    IN  IF body = <<>> \/ ~p.ok THEN [ok |-> FALSE, val |-> 0]
        ELSE [ok |-> TRUE, val |-> IF signed /\ Head(str) = "-" THEN -p.val ELSE p.val]

RECURSIVE PadLeft(_, _)
PadLeft(str, n) == IF Len(str) >= n THEN str ELSE PadLeft(<<"0">> \o str, n)

RECURSIVE PadRight(_, _)
PadRight(str, n) ==
    IF Len(str) >= n THEN SubSeq(str, 1, n) ELSE PadRight(str \o <<"0">>, n)

\* fmt's %.6f of a duty cycle d (in units of 10^-FracDigits): the value is
\* rounded to the nearest multiple of 10^-6
FormatFloat6(d) ==
    LET q == 10^(FracDigits - 6)
        a == IF d < 0 THEN -d ELSE d
        r == (a + (q \div 2)) \div q
    IN  (IF d < 0 THEN <<"-">> ELSE <<>>) \o FormatNat(r \div 1000000) \o <<".">> \o
        PadLeft(FormatNat(r % 1000000), 6)

\* strconv.ParseFloat(str, 64) on plain decimal syntax: optional sign,
\* digits, optional point and digits, at least one digit.  The result is in
\* units of 10^-FracDigits.
ParseFloat(str) ==
    LET signed == str # <<>> /\ Head(str) \in {"+", "-"}
        body == IF signed THEN Tail(str) ELSE str
        parts == SplitN2(body, ".")
        ip == ParseDecLoop(parts[1], 0)
        fp == IF Len(parts) = 2 THEN ParseDecLoop(PadRight(parts[2], FracDigits), 0)
              ELSE [ok |-> TRUE, val |-> 0]
        digits == Len(parts[1]) + (IF Len(parts) = 2 THEN Len(parts[2]) ELSE 0)
        mag == ip.val * 10^FracDigits + fp.val
    IN  IF digits = 0 \/ ~ip.ok \/ ~fp.ok THEN [ok |-> FALSE, val |-> 0]
        ELSE [ok |-> TRUE, val |-> IF signed /\ Head(str) = "-" THEN -mag ELSE mag]

----------------------------------------------------------------------------
(* Data model *)

SignalTypeParsed == <<"p","a","r","s","e","d">>
SignalTypeRaw == <<"r","a","w">>

kFiletypeColon == <<"F","i","l","e","t","y","p","e",":">>
kVersionColon == <<"V","e","r","s","i","o","n",":">>
kName == <<"n","a","m","e">>
kType == <<"t","y","p","e">>
kProtocol == <<"p","r","o","t","o","c","o","l">>
kAddress == <<"a","d","d","r","e","s","s">>
kCommand == <<"c","o","m","m","a","n","d">>
kFrequency == <<"f","r","e","q","u","e","n","c","y">>
kDutyCycle == <<"d","u","t","y","_","c","y","c","l","e">>
kData == <<"d","a","t","a">>

\* Signal{}
ZeroSignal ==
    [Name |-> <<>>, Type |-> <<>>, Protocol |-> <<>>, Address |-> Zero32,
     Command |-> Zero32, Frequency |-> 0, DutyCycle |-> 0, Data |-> <<>>]

\* SignalLib{}
ZeroLib == [Filetype |-> <<>>, Version |-> <<>>, Signals |-> <<>>]

Nil == [nil |-> TRUE]
NoErr == [kind |-> "none", line |-> -1]
NoRet == [set |-> FALSE]
NoLib == [nolib |-> TRUE]
NoVal == <<>>

----------------------------------------------------------------------------
(* Marshal *)

RECURSIVE MarshalData(_)
MarshalData(data) ==
    IF data = <<>> THEN <<>>
    ELSE <<" ">> \o FormatInt(Head(data)) \o MarshalData(Tail(data))

\* body of Marshal's loop over l.Signals
MarshalSignalSwapped(sg) ==
    <<"#", "\n">> \o
    kName \o <<":", " ">> \o sg.Name \o <<"\n">> \o
    kType \o <<":", " ">> \o sg.Type \o <<"\n">> \o
    (IF sg.Type = SignalTypeParsed THEN
        kProtocol \o <<":", " ">> \o sg.Protocol \o <<"\n">> \o
        kAddress \o <<":", " ">> \o encodeLEUint32Hex(sg.Address) \o <<"\n">> \o
        kCommand \o <<":", " ">> \o encodeLEUint32Hex(sg.Address) \o <<"\n">>
     ELSE IF sg.Type = SignalTypeRaw THEN
        kFrequency \o <<":", " ">> \o FormatInt(sg.Frequency) \o <<"\n">> \o
        kDutyCycle \o <<":", " ">> \o FormatFloat6(sg.DutyCycle) \o <<"\n">> \o
        kData \o <<":">> \o MarshalData(sg.Data) \o <<"\n">>
     ELSE <<>>)

MarshalSignalAllFields(sg) ==
    <<"#", "\n">> \o
    kName \o <<":", " ">> \o sg.Name \o <<"\n">> \o
    kType \o <<":", " ">> \o sg.Type \o <<"\n">> \o
    (IF sg.Type = SignalTypeParsed THEN
        kProtocol \o <<":", " ">> \o sg.Protocol \o <<"\n">> \o
        kAddress \o <<":", " ">> \o encodeLEUint32Hex(sg.Address) \o <<"\n">> \o
        kCommand \o <<":", " ">> \o encodeLEUint32Hex(sg.Command) \o <<"\n">>
     ELSE
        kFrequency \o <<":", " ">> \o FormatInt(sg.Frequency) \o <<"\n">> \o
        kDutyCycle \o <<":", " ">> \o FormatFloat6(sg.DutyCycle) \o <<"\n">> \o
        kData \o <<":">> \o MarshalData(sg.Data) \o <<"\n">>)

MarshalSignal(sg) ==
    <<"#", "\n">> \o
    kName \o <<":", " ">> \o sg.Name \o <<"\n">> \o
    kType \o <<":", " ">> \o sg.Type \o <<"\n">> \o
    (IF sg.Type = SignalTypeParsed THEN
        kProtocol \o <<":", " ">> \o sg.Protocol \o <<"\n">> \o
        kAddress \o <<":", " ">> \o encodeLEUint32Hex(sg.Address) \o <<"\n">> \o
        kCommand \o <<":", " ">> \o encodeLEUint32Hex(sg.Command) \o <<"\n">>
     ELSE IF sg.Type = SignalTypeRaw THEN
        kFrequency \o <<":", " ">> \o FormatInt(sg.Frequency) \o <<"\n">> \o
        kDutyCycle \o <<":", " ">> \o FormatFloat6(sg.DutyCycle) \o <<"\n">> \o
        kData \o <<":">> \o MarshalData(sg.Data) \o <<"\n">>
     ELSE <<>>)

RECURSIVE MarshalSignals(_)
MarshalSignals(sigs) ==
    IF sigs = <<>> THEN <<>>
    ELSE MarshalSignal(Head(sigs)) \o MarshalSignals(Tail(sigs))

Marshal(l) ==
    kFiletypeColon \o <<" ">> \o l.Filetype \o <<"\n">> \o
    kVersionColon \o <<" ">> \o l.Version \o <<"\n">> \o
    MarshalSignals(l.Signals)

----------------------------------------------------------------------------
(* Unmarshal *)

\* return nil, fmt.Errorf("invalid <kind> at line %d: %v", lineno, err)
FailPartial(st, kind, ln) ==
    [st EXCEPT !.ret = [set |-> TRUE,
                        lib |-> [st.lib EXCEPT !.Signals = st.signals],
                        err |-> [kind |-> kind, line |-> ln]]]

Fail(st, kind, ln) ==
    [st EXCEPT !.ret = [set |-> TRUE, lib |-> Nil, err |-> [kind |-> kind, line |-> ln]]]

RECURSIVE AtoiAll(_)
AtoiAll(fields) ==
    IF fields = <<>> THEN [ok |-> TRUE, val |-> <<>>]
    ELSE LET n == Atoi(Head(fields)) IN
         IF ~n.ok THEN [ok |-> FALSE, val |-> <<>>]
         ELSE LET rest == AtoiAll(Tail(fields)) IN
              IF ~rest.ok THEN rest ELSE [ok |-> TRUE, val |-> <<n.val>> \o rest.val]

\* the "#" branch of the loop
DelimiterNoGuard(st) ==
    [st EXCEPT !.signals = Append(@, st.curr), !.curr = ZeroSignal]

Delimiter(st) ==
    IF st.curr.Name # <<>>
    THEN [st EXCEPT !.signals = Append(@, st.curr), !.curr = ZeroSignal]
    ELSE st

\* switch key { ... }
SetField(st, key, value, ln) ==
    IF key = kName THEN [st EXCEPT !.curr.Name = value]
    ELSE IF key = kType THEN [st EXCEPT !.curr.Type = value]
    ELSE IF key = kProtocol THEN [st EXCEPT !.curr.Protocol = value]
    ELSE IF key = kAddress THEN
        LET r == leHexToUint32(value) IN
        IF ~r.ok THEN Fail(st, "address", ln) ELSE [st EXCEPT !.curr.Address = r.val]
    ELSE IF key = kCommand THEN
        LET r == leHexToUint32(value) IN
        IF ~r.ok THEN Fail(st, "command", ln) ELSE [st EXCEPT !.curr.Command = r.val]
    ELSE IF key = kFrequency THEN
        LET r == Atoi(value) IN
        IF ~r.ok THEN Fail(st, "frequency", ln) ELSE [st EXCEPT !.curr.Frequency = r.val]
    ELSE IF key = kDutyCycle THEN
        LET r == ParseFloat(value) IN
        IF ~r.ok THEN Fail(st, "duty_cycle", ln) ELSE [st EXCEPT !.curr.DutyCycle = r.val]
    ELSE IF key = kData THEN
        LET r == AtoiAll(Fields(value)) IN
        IF ~r.ok THEN Fail(st, "data int", ln) ELSE [st EXCEPT !.curr.Data = r.val]
    ELSE st

\* one iteration of the loop over lines; ln is Go's 0-based lineno
LineStep(st, raw, ln) ==
    LET line == TrimSpace(raw) IN
    IF Len(line) = 0 THEN st
    ELSE IF st.lib.Filetype = <<>> /\ HasPrefix(line, kFiletypeColon)
    THEN [st EXCEPT !.lib.Filetype = TrimSpace(TrimPrefix(line, kFiletypeColon))]
    ELSE IF st.lib.Version = <<>> /\ HasPrefix(line, kVersionColon)
    THEN [st EXCEPT !.lib.Version = TrimSpace(TrimPrefix(line, kVersionColon))]
    ELSE IF line = <<"#">> THEN Delimiter(st)
    ELSE LET parts == SplitN2(line, ":") IN
         IF Len(parts) # 2 THEN st
         ELSE SetField(st, TrimSpace(parts[1]), TrimSpace(parts[2]), ln)

\* after the loop: flush the record in progress, lib.Signals = signals, return &lib, nil
FinalFlushNone(st) == [st.lib EXCEPT !.Signals = st.signals]

FinalFlush(st) ==
    [st.lib EXCEPT !.Signals = IF st.curr.Name # <<>> THEN Append(st.signals, st.curr)
                               ELSE st.signals]

----------------------------------------------------------------------------
(* Inputs *)

RECURSIVE Join(_, _)
Join(seqs, sep) ==
    IF seqs = <<>> THEN <<>>
    ELSE IF Len(seqs) = 1 THEN seqs[1]
    ELSE seqs[1] \o sep \o Join(Tail(seqs), sep)

SeqsUpTo(S, n) == UNION {[1..k -> S] : k \in 0..n}

\* lines a raw input file is made of
LinePool ==
    {<<>>,
     <<"#">>,
     <<"F","i","l","e","t","y","p","e",":">>,
     <<"F","i","l","e","t","y","p","e",":"," ","I","R">>,
     <<"V","e","r","s","i","o","n",":"," ","1">>,
     <<"n","a","m","e",":"," ","A">>,
     <<" ","n","a","m","e"," ",":"," ","B","\r">>,
     <<"n","a","m","e",":">>,
     <<"a","d","d","r","e","s","s",":"," ","0","1"," ","0","0"," ","0","0"," ","0","0">>,
     <<"a","d","d","r","e","s","s",":"," ","Z","Z"," ","0","0"," ","0","0"," ","0","0">>,
     <<"c","o","m","m","a","n","d",":"," ","1","5"," ","0","0"," ","0","0">>,
     <<"f","r","e","q","u","e","n","c","y",":"," ","3","8","k">>,
     <<"d","u","t","y","_","c","y","c","l","e",":"," ","x">>,
     <<"d","a","t","a",":"," ","1","0","0"," ","-","3","0","0">>,
     <<"d","a","t","a",":"," ","1"," ","x">>,
     <<"f","o","o">>}

Files == SeqsUpTo(LinePool, MaxLines)

\* tokens and separators a text handed to leHexToUint32 is made of
TokenPool == {<<"0","0">>, <<"f","f">>, <<"A","b">>, <<"F">>, <<"0","F","F">>, <<"1","0","0">>, <<"Z","Z">>}
SepPool == {<<" ">>, <<" ", "\t", " ">>}
HexTexts == {Join(ts, sep) : ts \in SeqsUpTo(TokenPool, MaxTokens), sep \in SepPool}

ByteSamples == {0, 10, 21, 171, 255}
Uint32Samples == [1..4 -> ByteSamples]

sNEC == <<"N","E","C">>
sA == <<"V","o","l"," ","u","p">>
sB == <<"B">>
sIR == <<"I","R"," ","s","i","g","n","a","l","s"," ","f","i","l","e">>
sOther == <<"x">>

\* shapes of signal handed to Marshal
SignalShapes ==
    {[ZeroSignal EXCEPT !.Type = SignalTypeParsed, !.Protocol = sNEC,
                        !.Address = <<171, 1, 0, 255>>, !.Command = <<21, 0, 0, 0>>],
     [ZeroSignal EXCEPT !.Type = SignalTypeRaw, !.Frequency = 38000,
                        !.DutyCycle = 33 * 10^(FracDigits - 2), !.Data = <<100, 200, -300>>],
     [ZeroSignal EXCEPT !.Type = sOther],
     [ZeroSignal EXCEPT !.Type = SignalTypeParsed, !.Protocol = sNEC,
                        !.Command = <<21, 0, 0, 0>>, !.Frequency = 38000],
     [ZeroSignal EXCEPT !.Type = SignalTypeRaw, !.Frequency = 38000,
                        !.DutyCycle = 33 * 10^(FracDigits - 2) + 4],
     [ZeroSignal EXCEPT !.Type = sOther, !.Protocol = sNEC]}

SignalSamples == {[sh EXCEPT !.Name = n] : sh \in SignalShapes, n \in {sA, sB}}

Libs ==
    {[Filetype |-> ft, Version |-> v, Signals |-> sigs] :
        ft \in {<<>>, sIR, <<" ", "x">>}, v \in {<<"1">>},
        sigs \in SeqsUpTo(SignalSamples, MaxSignals)}

----------------------------------------------------------------------------
(* State machine *)

ParserIdle ==
    /\ lines = <<>> /\ lineno = 0 /\ lib = ZeroLib /\ signals = <<>>
    /\ curr = ZeroSignal /\ result = Nil /\ err = NoErr

HexIdle == hexV = NoVal /\ hexText = <<>> /\ hexOut = [ok |-> FALSE, val |-> Zero32] /\ hpc = "off"

\* Unmarshal is called on a raw file
Init ==
    /\ L = NoLib
    /\ s \in {Join(f, <<"\n">>) : f \in Files}
    /\ pc = "start"
    /\ ParserIdle /\ HexIdle

\* Marshal is called on a library and Unmarshal on its output
InitRT ==
    /\ L \in Libs
    /\ s = <<>>
    /\ pc = "marshal"
    /\ ParserIdle /\ HexIdle

\* the hex codec is called on a value or on a text
InitHex ==
    /\ L = NoLib /\ s = <<>> /\ pc = "off" /\ ParserIdle
    /\ hexOut = [ok |-> FALSE, val |-> Zero32]
    /\ \/ hexV \in Uint32Samples /\ hexText = <<>> /\ hpc = "encode"
       \/ hexV = NoVal /\ hexText \in HexTexts /\ hpc = "decode"

MarshalCall ==
    /\ pc = "marshal"
    /\ s' = Marshal(L)
    /\ pc' = "start"
    /\ UNCHANGED <<L, lines, lineno, lib, signals, curr, result, err>>
    /\ UNCHANGED hexVars

UnmarshalStart ==
    /\ pc = "start"
    /\ lines' = Split(s, "\n")
    /\ lineno' = 0
    /\ lib' = ZeroLib
    /\ signals' = <<>>
    /\ curr' = ZeroSignal
    /\ pc' = "loop"
    /\ UNCHANGED <<L, s, result, err>>
    /\ UNCHANGED hexVars

ProcessLine ==
    /\ pc = "loop"
    /\ lineno < Len(lines)
    /\ LET r == LineStep([lib |-> lib, signals |-> signals, curr |-> curr, ret |-> NoRet],
                         lines[lineno + 1], lineno)
       IN  IF r.ret.set
           THEN /\ result' = r.ret.lib
                /\ err' = r.ret.err
                /\ pc' = "done"
                /\ UNCHANGED <<lineno, lib, signals, curr>>
           ELSE /\ lib' = r.lib
                /\ signals' = r.signals
                /\ curr' = r.curr
                /\ lineno' = lineno + 1
                /\ UNCHANGED <<pc, result, err>>
    /\ UNCHANGED <<L, s, lines>>
    /\ UNCHANGED hexVars

UnmarshalReturn ==
    /\ pc = "loop"
    /\ lineno = Len(lines)
    /\ lib' = FinalFlush([lib |-> lib, signals |-> signals, curr |-> curr, ret |-> NoRet])
    /\ result' = lib'
    /\ err' = NoErr
    /\ pc' = "done"
    /\ UNCHANGED <<L, s, lines, lineno, signals, curr>>
    /\ UNCHANGED hexVars

EncodeCall ==
    /\ hpc = "encode"
    /\ hexText' = encodeLEUint32Hex(hexV)
    /\ hpc' = "decode"
    /\ UNCHANGED <<hexV, hexOut>>
    /\ UNCHANGED parseVars

DecodeCall ==
    /\ hpc = "decode"
    /\ hexOut' = leHexToUint32(hexText)
    /\ hpc' = "done"
    /\ UNCHANGED <<hexV, hexText>>
    /\ UNCHANGED parseVars

Next == UnmarshalStart \/ ProcessLine \/ UnmarshalReturn
NextRT == MarshalCall \/ UnmarshalStart \/ ProcessLine \/ UnmarshalReturn
NextHex == EncodeCall \/ DecodeCall

Spec == Init /\ [][Next]_vars
SpecRT == InitRT /\ [][NextRT]_vars
SpecHex == InitHex /\ [][NextHex]_vars

----------------------------------------------------------------------------
(* Vocabulary of the properties *)

TLine(i) == TrimSpace(lines[i])

IsDelimiterLine(line) == line = <<"#">>

KeyOf(line) ==
    LET i == IndexByte(line, ":") IN
    IF i = 0 THEN <<>> ELSE TrimSpace(SubSeq(line, 1, i - 1))

ValueOf(line) ==
    LET i == IndexByte(line, ":") IN
    IF i = 0 THEN <<>> ELSE TrimSpace(SubSeq(line, i + 1, Len(line)))

HasColon(line) == IndexByte(line, ":") > 0

\* the line carries a value its key cannot decode
Malformed(line) ==
    /\ HasColon(line)
    /\ \/ KeyOf(line) \in {kAddress, kCommand} /\ ~leHexToUint32(ValueOf(line)).ok
       \/ KeyOf(line) = kFrequency /\ ~Atoi(ValueOf(line)).ok
       \/ KeyOf(line) = kDutyCycle /\ ~ParseFloat(ValueOf(line)).ok
       \/ KeyOf(line) = kData /\ ~AtoiAll(Fields(ValueOf(line))).ok

HasBad == \E i \in 1..Len(lines) : Malformed(TLine(i))

\* 1-based index of the first malformed line of the input
FirstBad ==
    CHOOSE i \in 1..Len(lines) :
        Malformed(TLine(i)) /\ \A j \in 1..(i - 1) : ~Malformed(TLine(j))

Parsing == pc \in {"loop", "done"}
Succeeded == pc = "done" /\ err = NoErr
Failed == pc = "done" /\ err # NoErr

Names(sigs) == [i \in 1..Len(sigs) |-> sigs[i].Name]

\* Records the text delimits: for every flush (at a "#" or at the end of the
\* input, index Len+1) with a name in progress, the name, the index of the
\* line that set it and the index of the flush.
RECURSIVE Flushes(_, _, _, _)
Flushes(ls, i, cur, acc) ==
    IF i > Len(ls)
    THEN IF cur.name # <<>> THEN Append(acc, [name |-> cur.name, n |-> cur.n, f |-> i]) ELSE acc
    ELSE LET line == TrimSpace(ls[i]) IN
         IF IsDelimiterLine(line)
         THEN IF cur.name # <<>>
              THEN Flushes(ls, i + 1, [name |-> <<>>, n |-> 0],
                           Append(acc, [name |-> cur.name, n |-> cur.n, f |-> i]))
              ELSE Flushes(ls, i + 1, cur, acc)
         ELSE IF HasColon(line) /\ KeyOf(line) = kName
              THEN Flushes(ls, i + 1, [name |-> ValueOf(line), n |-> i], acc)
              ELSE Flushes(ls, i + 1, cur, acc)

ExpectedRecords == Flushes(lines, 1, [name |-> <<>>, n |-> 0], <<>>)

----------------------------------------------------------------------------
(* C2 *)

\* C2: when Unmarshal fails on a malformed value, the line number carried in
\* the error is the 1-based index of the offending line in the input.
C2_LineNumberOneBased == Failed => err.line = FirstBad

----------------------------------------------------------------------------
(* C3 *)

FiletypeConsumed ==
    pc = "loop" /\ \E i \in 1..lineno : HasPrefix(TLine(i), kFiletypeColon)

\* C3: once a Filetype: line has been consumed as the header, the library's
\* Filetype never changes again for the rest of the parse, whatever value
\* that first header line carried.
C3_OneShotHeader == [][FiletypeConsumed => lib'.Filetype = lib.Filetype]_vars

----------------------------------------------------------------------------
(* C4 *)

\* C4: if any line of the input carries a malformed address, command,
\* frequency, duty_cycle or data value, the parse never goes past the first
\* such line and Unmarshal returns an error and a nil library, whatever
\* records were delimited before.
C4_AllOrNothing ==
    (Parsing /\ HasBad) =>
        /\ lineno < FirstBad
        /\ pc = "done" => (result = Nil /\ err # NoErr /\ lineno = FirstBad - 1)

C4_Witness ==
    /\ Failed /\ result = Nil
    /\ Len(signals) >= 1
    /\ lineno + 1 = Len(lines)

----------------------------------------------------------------------------
(* C7 *)

NameSettingLines ==
    {i \in 1..Len(lines) :
        HasColon(TLine(i)) /\ KeyOf(TLine(i)) = kName /\ ValueOf(TLine(i)) # <<>>}

\* C7: no signal with an empty Name is ever appended, and on success the
\* number of returned signals does not exceed the number of lines that set a
\* non-empty name.
C7_NoEmptyName ==
    /\ \A i \in 1..Len(signals) : signals[i].Name # <<>>
    /\ Succeeded =>
        /\ \A i \in 1..Len(result.Signals) : result.Signals[i].Name # <<>>
        /\ Len(result.Signals) <= Cardinality(NameSettingLines)

C7_Witness ==
    /\ Succeeded
    /\ Len(result.Signals) = 1
    /\ \E i \in 1..(Len(lines) - 1) : IsDelimiterLine(TLine(i)) /\ IsDelimiterLine(TLine(i + 1))

----------------------------------------------------------------------------
(* C8 *)

\* C8: on success the returned signals are, in file order, exactly the
\* records in progress at a "#" delimiter followed by the record still in
\* progress at the end of the input, each once.
C8_FlushAndOrder ==
    Succeeded => Names(result.Signals) = [k \in 1..Len(ExpectedRecords) |-> ExpectedRecords[k].name]

C8_Witness ==
    /\ Succeeded
    /\ Len(result.Signals) = 2
    /\ result.Signals[1].Name # result.Signals[2].Name
    /\ ~IsDelimiterLine(TLine(Len(lines)))
    /\ curr.Name # <<>>

----------------------------------------------------------------------------
(* C10 *)

LastDelimiterBefore(n) ==
    LET ds == {i \in 1..(n - 1) : IsDelimiterLine(TLine(i))} IN
    IF ds = {} THEN 0 ELSE CHOOSE i \in ds : \A j \in ds : j <= i

SetBetween(key, g, f) ==
    \E i \in (g + 1)..(f - 1) : HasColon(TLine(i)) /\ KeyOf(TLine(i)) = key

\* C10: on success every non-zero field of a returned signal was set by a
\* line lying between the "#" that precedes the signal's name line and the
\* delimiter (or end of input) that flushed the signal.
C10_RecordIsolation ==
    Succeeded =>
        \A k \in 1..Len(result.Signals) :
            k <= Len(ExpectedRecords) =>
                LET sg == result.Signals[k]
                    f == ExpectedRecords[k].f
                    g == LastDelimiterBefore(ExpectedRecords[k].n)
                IN  /\ sg.Type # <<>> => SetBetween(kType, g, f)
                    /\ sg.Protocol # <<>> => SetBetween(kProtocol, g, f)
                    /\ sg.Address # Zero32 => SetBetween(kAddress, g, f)
                    /\ sg.Command # Zero32 => SetBetween(kCommand, g, f)
                    /\ sg.Frequency # 0 => SetBetween(kFrequency, g, f)
                    /\ sg.DutyCycle # 0 => SetBetween(kDutyCycle, g, f)
                    /\ sg.Data # <<>> => SetBetween(kData, g, f)

----------------------------------------------------------------------------
(* C1 *)

Marshalled == L # NoLib

NoNewline(str) == \A i \in 1..Len(str) : str[i] # "\n"
PlainString(str) == NoNewline(str) /\ TrimSpace(str) = str

\* well-formed in the sense of the round-trip contract: plain strings and
\* non-empty names; any Type and any values in both field groups
WellFormedLib(l) ==
    /\ PlainString(l.Filetype) /\ PlainString(l.Version)
    /\ \A i \in 1..Len(l.Signals) :
        LET sg == l.Signals[i] IN
        /\ sg.Name # <<>>
        /\ PlainString(sg.Name) /\ PlainString(sg.Type) /\ PlainString(sg.Protocol)

ParsedGroupZero(sg) == sg.Protocol = <<>> /\ sg.Address = Zero32 /\ sg.Command = Zero32
RawGroupZero(sg) == sg.Frequency = 0 /\ sg.DutyCycle = 0 /\ sg.Data = <<>>

\* what Marshal writes determines the signal: the group its Type does not
\* select is zero and the duty cycle has at most 6 decimals
Emitted(sg) ==
    /\ sg.Type # SignalTypeParsed => ParsedGroupZero(sg)
    /\ sg.Type # SignalTypeRaw => RawGroupZero(sg)
    /\ sg.DutyCycle % (10^(FracDigits - 6)) = 0

CanonicalLib(l) == WellFormedLib(l) /\ \A i \in 1..Len(l.Signals) : Emitted(l.Signals[i])

\* C1 (as stated): Unmarshal(Marshal(L)) succeeds and equals L for every
\* well-formed L, whatever its Type and the values of both field groups.
C1_RoundTripAny ==
    (pc = "done" /\ Marshalled /\ WellFormedLib(L)) => (err = NoErr /\ result = L)

\* C1 (amended): Unmarshal(Marshal(L)) succeeds and equals L for every
\* well-formed L whose signals carry zero values in the field group their Type
\* does not select and a duty cycle of at most 6 decimals.
C1_RoundTrip ==
    (pc = "done" /\ Marshalled /\ CanonicalLib(L)) => (err = NoErr /\ result = L)

C1_Witness ==
    /\ pc = "done" /\ Marshalled /\ CanonicalLib(L)
    /\ Len(L.Signals) = 2
    /\ L.Signals[1].Type = SignalTypeParsed /\ L.Signals[1].Address # L.Signals[1].Command
    /\ L.Signals[2].Type = SignalTypeRaw /\ L.Signals[2].Data # <<>>
    /\ result = L

----------------------------------------------------------------------------
(* C9 *)

\* key of an emitted line: "#" for a delimiter, the text before the colon otherwise
LineKey(line) == IF IsDelimiterLine(line) THEN line ELSE SubSeq(line, 1, IndexByte(line, ":") - 1)

kFiletype == SubSeq(kFiletypeColon, 1, Len(kFiletypeColon) - 1)
kVersion == SubSeq(kVersionColon, 1, Len(kVersionColon) - 1)

ExpectedKeysOf(sg) ==
    <<<<"#">>, kName, kType>> \o
    (IF sg.Type = SignalTypeParsed THEN <<kProtocol, kAddress, kCommand>>
     ELSE IF sg.Type = SignalTypeRaw THEN <<kFrequency, kDutyCycle, kData>>
     ELSE <<>>)

RECURSIVE ExpectedKeys(_)
ExpectedKeys(sigs) ==
    IF sigs = <<>> THEN <<>> ELSE ExpectedKeysOf(Head(sigs)) \o ExpectedKeys(Tail(sigs))

\* the lines of the buffer, without the empty piece after the last newline
EmittedLines ==
    LET ls == Split(s, "\n") IN SubSeq(ls, 1, Len(ls) - 1)

\* C9: Marshal emits Filetype, Version and then for each signal in order the
\* lines #, name, type followed by protocol, address, command when Type is
\* parsed, by frequency, duty_cycle, data when Type is raw, and by nothing
\* for any other Type; every line ends with a newline.
C9_SerializerShape ==
    (pc = "start" /\ Marshalled) =>
        /\ s[Len(s)] = "\n"
        /\ [i \in 1..Len(EmittedLines) |-> LineKey(EmittedLines[i])]
             = <<kFiletype, kVersion>> \o ExpectedKeys(L.Signals)
        /\ SelectSeq(EmittedLines, LAMBDA ln : LineKey(ln) = kName)
             = [i \in 1..Len(L.Signals) |-> kName \o <<":", " ">> \o L.Signals[i].Name]

C9_Witness ==
    /\ pc = "start" /\ Marshalled
    /\ Len(L.Signals) = 2
    /\ L.Signals[1].Type = SignalTypeParsed /\ ~RawGroupZero(L.Signals[1])
    /\ L.Signals[2].Type \notin {SignalTypeParsed, SignalTypeRaw}
    /\ ~ParsedGroupZero(L.Signals[2])

----------------------------------------------------------------------------
(* C5 *)

UpperHexValue(c) == (CHOOSE i \in 1..16 : HexDigits[i] = c) - 1
IsUpperHex(c) == \E i \in 1..16 : HexDigits[i] = c

\* 4 space-separated upper-case 2-digit tokens, token k denoting byte k of v
LittleEndianText(txt, v) ==
    /\ Len(txt) = 11
    /\ \A k \in 0..3 :
        /\ IsUpperHex(txt[3 * k + 1]) /\ IsUpperHex(txt[3 * k + 2])
        /\ 16 * UpperHexValue(txt[3 * k + 1]) + UpperHexValue(txt[3 * k + 2]) = v[k + 1]
        /\ k < 3 => txt[3 * k + 3] = " "

\* C5: for every 32-bit value v, encodeLEUint32Hex(v) is 4 space-separated
\* upper-case 2-digit hex tokens, least-significant byte first, and
\* leHexToUint32 of it succeeds and returns v.
C5_HexInverse ==
    hexV # NoVal =>
        /\ hpc \in {"decode", "done"} => LittleEndianText(hexText, hexV)
        /\ hpc = "done" => hexOut = [ok |-> TRUE, val |-> hexV]

C5_Witness ==
    /\ hpc = "done"
    /\ hexV = <<171, 10, 0, 255>>
    /\ hexOut = [ok |-> TRUE, val |-> hexV]

----------------------------------------------------------------------------
(* C6 *)

IsHexChar(c) == IsUpperHex(c) \/ \E i \in 1..16 : LowerHexDigits[i] = c

RECURSIVE StripZeros(_)
StripZeros(tok) ==
    IF tok # <<>> /\ Head(tok) = "0" THEN StripZeros(Tail(tok)) ELSE tok

TwoDigitToken(tok) == Len(tok) = 2 /\ \A i \in 1..2 : IsHexChar(tok[i])

\* a non-empty run of hex digits denoting at most 255
ByteToken(tok) ==
    /\ tok # <<>>
    /\ \A i \in 1..Len(tok) : IsHexChar(tok[i])
    /\ Len(StripZeros(tok)) <= 2

\* C6 (as stated): leHexToUint32 succeeds only on exactly 4 tokens of two
\* hex digits each and fails on everything else.
C6_TwoDigitTokensOnly ==
    hpc = "done" =>
        (hexOut.ok <=> (LET b == Fields(hexText) IN
                        Len(b) = 4 /\ \A i \in 1..4 : TwoDigitToken(b[i])))

\* C6 (amended): leHexToUint32 succeeds exactly when the value consists of 4
\* whitespace-separated tokens each of which is a non-empty run of hex
\* digits denoting at most 255, whatever its number of digits; it fails on
\* everything else.
C6_DecodeStrictness ==
    hpc = "done" =>
        (hexOut.ok <=> (LET b == Fields(hexText) IN
                        Len(b) = 4 /\ \A i \in 1..4 : ByteToken(b[i])))

C6_Witness ==
    /\ hpc = "done" /\ hexV = NoVal
    /\ hexOut.ok
    /\ \E i \in 1..4 : Len(Fields(hexText)[i]) = 1
    /\ \E i \in 1..4 : Len(Fields(hexText)[i]) = 3

====
